---- MODULE Spec2Model ----
(***************************************************************************)
(* State-machine model of src-tauri/src/video_decoder.rs: the frame        *)
(* extraction call (get_frame_at_time_with_quality), the thumbnail batch   *)
(* (generate_thumbnails_with_options) and the handle registry              *)
(* (open_video / close_video on VIDEO_HANDLES).                            *)
(*                                                                         *)
(* Three specifications share the module:                                  *)
(*   Spec          one extract call, step by step, on a bounded container  *)
(*   SpecGenerate  one thumbnail batch                                     *)
(*   SpecRegistry  threads calling open_video concurrently                 *)
(*                                                                         *)
(* Numbers.  Rust's i64 is modelled as a two's-complement integer of Bits  *)
(* bits (the model checker's integers are 32 bits wide), with the same     *)
(* saturating float-to-int cast, and with overflow either panicking (a     *)
(* build with overflow checks) or wrapping (a build without).  f64 inputs  *)
(* are integer valued, so every float operation of the code is exact.      *)
(***************************************************************************)
EXTENDS Integers, Sequences, FiniteSets, TLC

\* ------------------------------------------------------------------ bounds
Bits == 24
MaxPackets == 3
MaxPts == 2

MaxFailTs == 3
NThreads == 2
MaxCalls == 3
LongDuration == 102

\* ------------------------------------------------------- program constants
MicrosPerSec == 1000000
HardCap == 100

I64_MAX == 2^(Bits - 1) - 1
I64_MIN == -I64_MAX - 1
USIZE_MAX == 2^Bits - 1

\* ------------------------------------------------------------- arithmetic
Overflows(x) == x > I64_MAX \/ x < I64_MIN

\* two's-complement wrap of a mathematical integer into i64
Wrap(x) == ((x - I64_MIN) % (2^Bits)) + I64_MIN

\* `f as i64`: truncation happened already (inputs are integers); saturates
SatCast(x) == IF x > I64_MAX THEN I64_MAX ELSE IF x < I64_MIN THEN I64_MIN ELSE x

\* f64 division followed by truncation toward zero
TruncDiv(a, b) == IF a >= 0 THEN a \div b ELSE -((-a) \div b)

Abs(x) == IF x < 0 THEN -x ELSE x

\* Option<T> is a sequence of length at most one
None == <<>>
Some(x) == <<x>>
UnwrapOr(o, d) == IF o = None THEN d ELSE o[1]

\* ------------------------------------------------------------- containers
VideoStream == 0
OtherStream == 1

\* the presentation timestamps packets carry: none, small ones, and the
\* largest one an i64 holds (a damaged file)
PtsOptions == {None} \cup {Some(n) : n \in 0..MaxPts} \cup {Some(I64_MAX)}

\* a demuxed packet: the stream it belongs to and its presentation timestamp
Packets ==
    {[stream |-> OtherStream, pts |-> None]}
    \cup {[stream |-> VideoStream, pts |-> p] : p \in PtsOptions}

\* the packet sequence of a container file, in demux order
Files == UNION {[1..n -> Packets] : n \in 0..MaxPackets}

\* a denominator large enough that a few seconds saturate target_ts, small
\* enough that 2 * denominator is an i64
BigDen == I64_MAX \div 4

TimeBases == {[num |-> 1, den |-> 1], [num |-> 1, den |-> BigDen]}

\* timestamp_secs of the call: before the start, inside, far past the end,
\* and one whose microsecond position does not fit an i64
Timestamps == {-1, 0, 1, 5, 9}


\* ------------------------------------------------------------------ state
VARIABLES
    \* one call of get_frame_at_time_with_quality
    file,             \* the packets of the container at `path`
    time_base,        \* video_stream.time_base()
    timestamp_secs,   \* the argument
    overflow_checks,  \* the build: TRUE panics on integer overflow, FALSE wraps
    pc,               \* position of the call in the function body
    target_ts,        \* line 319
    seek_log,         \* results of the seek calls made, in order
    landed,           \* number of packets the successful seek skipped
    pos,              \* index of the next packet input_ctx.packets() yields
    cur,              \* index of the packet of the current loop iteration
    dbuf,             \* frames held inside the decoder (packet indices)
    sent,             \* packets given to decoder.send_packet, in order
    emitted,          \* frames decoder.receive_frame returned, in order
    flushed,          \* decoder.send_eof was called
    closest_frame,    \* Option<VideoFrame>, a frame named by its packet index
    closest_diff,     \* i64
    encoded,          \* the frame handed to encode_frame_as_base64_jpeg
    result            \* what the call returned

xvars == <<file, time_base, timestamp_secs, overflow_checks, pc, target_ts,
           seek_log, landed, pos, cur, dbuf, sent, emitted, flushed,
           closest_frame, closest_diff, encoded, result>>

VARIABLES
    \* one call of generate_thumbnails_with_options
    g_probe,          \* what get_video_info(path) returns: "ok" or an error code
    g_duration,       \* info.duration_secs when the probe succeeds
    g_interval,       \* interval_secs
    g_max,            \* max_thumbnails: Option<usize>
    g_fail,           \* the timestamps at which extraction from this file fails
    g_pc,             \* position of the call in the function body
    g_count,          \* count
    g_i,              \* the loop variable
    g_attempted,      \* timestamps passed to get_frame_at_time_with_quality
    thumbnails,       \* the Vec being built
    g_result          \* what the call returned

gvars == <<g_probe, g_duration, g_interval, g_max, g_fail, g_pc, g_count, g_i,
           g_attempted, thumbnails, g_result>>

VARIABLES
    \* threads calling open_video and close_video
    disk,             \* the paths that exist on disk
    handles,          \* VIDEO_HANDLES: handle id -> VideoHandle
    lock_holder,      \* the thread holding the VIDEO_HANDLES mutex, 0 if free
    next_uuid,        \* the tokens Uuid::new_v4 has produced so far
    r_pc,             \* per thread: position in open_video / close_video
    r_path,           \* per thread: the path argument of its open_video
    r_info,           \* per thread: the VideoInfo its probe returned
    r_handle_id,      \* per thread: the handle id it formatted / was given
    r_calls,          \* calls started so far, over all threads
    opened,           \* the identifiers successful opens returned, in order
    closed,           \* the identifiers close_video was called with, in order
    failed,           \* the opens that returned an error: path and code
    probes            \* the paths open_video has passed to get_video_info

rvars == <<disk, handles, lock_holder, next_uuid, r_pc, r_path, r_info,
           r_handle_id, r_calls, opened, closed, failed, probes>>

VARIABLES
    \* two calls of get_frame_at_time_with_quality with the same arguments
    run,              \* 0: a single call; 1, 2: the first, the second call
    tape,             \* what the libraries answered in the first call, by step
    tape_pos,         \* the step of the second call
    first_result      \* what the first call returned

tvars == <<run, tape, tape_pos, first_result>>

VARIABLES
    \* one call of get_video_info
    avg_frame_rate,   \* video_stream.avg_frame_rate()
    r_frame_rate,     \* video_stream.rate()
    ctx_duration,     \* input_ctx.duration(), in AV_TIME_BASE units
    stream_duration,  \* video_stream.duration(), in time-base units
    stream_time_base, \* video_stream.time_base()
    stream_frames,    \* video_stream.frames()
    p_pc,             \* position of the call in the function body
    fps,              \* f64, as a fraction
    duration_secs,    \* f64, as a fraction
    p_result          \* what the call returned

pvars == <<avg_frame_rate, r_frame_rate, ctx_duration, stream_duration,
           stream_time_base, stream_frames, p_pc, fps, duration_secs, p_result>>

VARIABLES
    \* threads calling run_melt_render and cancel_melt_render
    active_jobs,      \* MeltState.active_jobs: job_id -> is_cancelled
    temp_files,       \* the job ids whose <job_id>.mlt exists in the temp dir
    m_pc,             \* per thread: position in its call
    m_job,            \* per thread: the job_id argument
    m_status,         \* per thread: output.status.success() of its melt
    m_removed,        \* per thread: what jobs.remove(&job_id) returned
    m_calls,          \* calls started so far, over all threads
    m_spawned,        \* the job ids melt was started for, in order
    m_log             \* the calls that returned, with their results

mvars == <<active_jobs, temp_files, m_pc, m_job, m_status, m_removed, m_calls,
           m_spawned, m_log>>

vars == <<xvars, gvars, rvars, tvars, pvars, mvars>>

NoResult == [kind |-> "none"]
Ok(f) == [kind |-> "ok", frame |-> f]
Err(code, at) == [kind |-> "err", code |-> code, at |-> at]
Panic(at) == [kind |-> "panic", at |-> at]

\* codes encode_frame_as_base64_jpeg can fail with
EncodeErrors == {"SCALER_ERROR", "SCALE_ERROR", "IMAGE_ERROR", "JPEG_ENCODE_ERROR"}

\* ------------------------------------------------- the pure parts of extract
\* line 319: (timestamp_secs * den as f64 / num as f64) as i64
TargetTs(ts, tb) == SatCast(TruncDiv(ts * tb.den, tb.num))

\* line 324: timestamp_secs as i64 * 1_000_000, and the same + 1_000_000
SeekPosRaw(ts) == SatCast(ts) * MicrosPerSec
SeekOverflows(ts) ==
    Overflows(SeekPosRaw(ts)) \/ Overflows(Wrap(SeekPosRaw(ts)) + MicrosPerSec)

\* decoded_frame.pts().unwrap_or(0) of the frame decoded from packet i
FrameTs(f, i) == UnwrapOr(f[i].pts, 0)

\* lines 344, 371: (frame_ts - target_ts).abs()
DiffOverflows(frame_ts, tgt) ==
    Overflows(frame_ts - tgt) \/ Wrap(frame_ts - tgt) = I64_MIN
Diff(frame_ts, tgt) ==
    LET d == Wrap(frame_ts - tgt) IN IF d = I64_MIN THEN I64_MIN ELSE Abs(d)

\* lines 346-349: the closest-frame update of the forward scan,
\* <<closest_frame, closest_diff>> after the frame of packet i
ScanUpdate(cf, cd, i, diff) ==
    IF diff < cd THEN <<Some(i), diff>> ELSE <<cf, cd>>

\* lines 373-375: the closest-frame update of the flush loop
FlushUpdate(cf, cd, i, diff) ==
    IF diff < cd THEN <<Some(i), cd>> ELSE <<cf, cd>>

\* faulty variant of EarlyExit: exits only once a frame is past the target
EarlyExitStrictlyPast(frame_ts, tgt, cf) == frame_ts > tgt /\ cf # None

\* line 352
EarlyExit(frame_ts, tgt, cf) == frame_ts >= tgt /\ cf # None

\* faulty variant of SafetyBound: twenty denominators instead of two
SafetyBoundTwenty(tgt, tb) == Wrap(tgt + tb.den * 20)

\* line 360: target_ts + (time_base.denominator() as i64 * 2)
BoundOverflows(tgt, tb) == Overflows(tgt + tb.den * 2)
SafetyBound(tgt, tb) == Wrap(tgt + tb.den * 2)

\* lines 359-363
PastSafetyBound(pkt, tgt, tb) ==
    pkt.pts # None /\ pkt.pts[1] > SafetyBound(tgt, tb)


\* faulty variant of SeekSucceeds: the failure of the precise seek is propagated
SeekWithoutFallback(precise_ok, fallback_ok) == precise_ok

\* lines 323-328: seek(..).or_else(|_| seek(0, ..))? goes on iff one of the two
\* seeks succeeded
SeekSucceeds(precise_ok, fallback_ok) == precise_ok \/ fallback_ok

\* lines 379-386: the value returned once scan and flush are over
FrameNotFound(ts) ==
    [kind |-> "err", code |-> "FRAME_NOT_FOUND", at |-> "select", ts |-> ts]
Selected(cf) == cf # None

\* the other two calls are not running
GIdle ==
    /\ g_probe = "ok" /\ g_duration = 0 /\ g_interval = 0 /\ g_max = None
    /\ g_fail = {} /\ g_pc = "idle" /\ g_count = 0 /\ g_i = 0
    /\ g_attempted = <<>> /\ thumbnails = <<>> /\ g_result = NoResult

\* HashMap::new()
EmptyMap == [id \in {} |-> 0]

RIdle ==
    /\ disk = {} /\ handles = EmptyMap /\ lock_holder = 0 /\ next_uuid = 0
    /\ r_pc = <<>> /\ r_path = <<>> /\ r_info = <<>> /\ r_handle_id = <<>>
    /\ r_calls = 0 /\ opened = <<>> /\ closed = <<>>
    /\ failed = <<>> /\ probes = {}

\* an f64 that holds the quotient n / d of two integers, d # 0
Frac(n, d) == [n |-> n, d |-> d]

PIdle ==
    /\ avg_frame_rate = Frac(0, 0) /\ r_frame_rate = Frac(0, 0)
    /\ ctx_duration = 0 /\ stream_duration = 0
    /\ stream_time_base = [num |-> 1, den |-> 1] /\ stream_frames = 0
    /\ p_pc = "idle" /\ fps = Frac(0, 1) /\ duration_secs = Frac(0, 1)
    /\ p_result = NoResult

MIdle ==
    /\ active_jobs = EmptyMap /\ temp_files = {} /\ m_pc = <<>> /\ m_job = <<>>
    /\ m_status = <<>> /\ m_removed = <<>> /\ m_calls = 0 /\ m_spawned = <<>>
    /\ m_log = <<>>

\* no pair of calls is compared
TIdle == run = 0 /\ tape = <<>> /\ tape_pos = 0 /\ first_result = NoResult

\* ----------------------------------------- get_frame_at_time_with_quality
XIdle ==
    /\ file = <<>> /\ time_base = [num |-> 1, den |-> 1] /\ timestamp_secs = 0
    /\ overflow_checks = FALSE /\ pc = "idle" /\ target_ts = 0
    /\ seek_log = <<>> /\ landed = 0 /\ pos = 1 /\ cur = 0 /\ dbuf = <<>>
    /\ sent = <<>> /\ emitted = <<>> /\ flushed = FALSE
    /\ closest_frame = None /\ closest_diff = I64_MAX
    /\ encoded = None /\ result = NoResult

XInit ==
    /\ file \in Files
    /\ time_base \in TimeBases
    /\ timestamp_secs \in Timestamps
    /\ overflow_checks \in BOOLEAN
    /\ pc = "open" /\ target_ts = 0
    /\ seek_log = <<>> /\ landed = 0 /\ pos = 1 /\ cur = 0 /\ dbuf = <<>>
    /\ sent = <<>> /\ emitted = <<>> /\ flushed = FALSE
    /\ closest_frame = None /\ closest_diff = I64_MAX
    /\ encoded = None /\ result = NoResult

XInputs == <<file, time_base, timestamp_secs, overflow_checks>>

\* return encode_frame_as_base64_jpeg(&frame, quality): the encoder's result
Encode(f) ==
    /\ encoded' = Some(f)
    /\ result' \in {Ok(f)} \cup {Err(c, "encode") : c \in EncodeErrors}
    /\ pc' = "done"

\* a `?` that returns the error
Fail(r) == result' = r /\ pc' = "done" /\ UNCHANGED encoded

\* what the libraries answered in this step: the results of the seeks and the
\* packet the seek landed on, the frames the decoder handed out, the call
\* that failed
LibAnswer ==
    <<seek_log', landed', Len(emitted') - Len(emitted),
      IF result'.kind = "err" /\ result'.at # "select"
        THEN <<result'.code, result'.at>> ELSE <<>> >>

\* the file is not modified between two calls, so FFmpeg and the encoder
\* answer the second call as they answered the first: the first call records
\* the answers, the second is given the same
Track ==
    CASE run = 0 -> UNCHANGED tvars
      [] run = 1 -> /\ tape' = Append(tape, LibAnswer)
                    /\ UNCHANGED <<run, tape_pos, first_result>>
      [] run = 2 -> /\ tape_pos <= Len(tape)
                    /\ LibAnswer = tape[tape_pos]
                    /\ tape_pos' = tape_pos + 1
                    /\ UNCHANGED <<run, tape, first_result>>

\* lines 300-316: input(), streams().best(), the decoder
OpenFail ==
    /\ pc = "open"
    /\ \E r \in {Err("FFMPEG_ERROR", "input"), Err("NO_VIDEO_STREAM", "best"),
                 Err("FFMPEG_ERROR", "decoder")} : Fail(r)
    /\ UNCHANGED <<XInputs, target_ts, seek_log, landed, pos, cur, dbuf, sent,
                   emitted, flushed, closest_frame, closest_diff>>
    /\ UNCHANGED <<gvars, rvars, pvars, mvars>>
    /\ Track

\* lines 300-320
OpenOk ==
    /\ pc = "open"
    /\ target_ts' = TargetTs(timestamp_secs, time_base)
    /\ pc' = "seek"
    /\ UNCHANGED <<XInputs, seek_log, landed, pos, cur, dbuf, sent, emitted,
                   flushed, closest_frame, closest_diff, encoded, result>>
    /\ UNCHANGED <<gvars, rvars, pvars, mvars>>
    /\ Track

\* line 324 in a build with overflow checks
SeekPanic ==
    /\ pc = "seek"
    /\ overflow_checks /\ SeekOverflows(timestamp_secs)
    /\ Fail(Panic("seek"))
    /\ UNCHANGED <<XInputs, target_ts, seek_log, landed, pos, cur, dbuf, sent,
                   emitted, flushed, closest_frame, closest_diff>>
    /\ UNCHANGED <<gvars, rvars, pvars, mvars>>
    /\ Track

\* lines 323-332: the precise seek lands on some packet k; the fallback, made
\* only when the precise seek failed, lands on the first packet
Seek ==
    /\ pc = "seek"
    /\ ~(overflow_checks /\ SeekOverflows(timestamp_secs))
    /\ \E precise_ok \in BOOLEAN, fallback_ok \in BOOLEAN, k \in 0..Len(file) :
         /\ precise_ok => ~fallback_ok
         /\ seek_log' = IF precise_ok THEN <<"ok">>
                        ELSE <<"fail", IF fallback_ok THEN "ok" ELSE "fail">>
         /\ IF SeekSucceeds(precise_ok, fallback_ok)
              THEN /\ landed' = (IF precise_ok THEN k ELSE 0)
                   /\ pos' = landed' + 1
                   /\ pc' = "scan"
                   /\ UNCHANGED <<result, encoded>>
              ELSE /\ Fail(Err("FFMPEG_ERROR", "seek"))
                   /\ UNCHANGED <<landed, pos>>
    /\ UNCHANGED <<XInputs, target_ts, cur, dbuf, sent, emitted, flushed,
                   closest_frame, closest_diff>>
    /\ UNCHANGED <<gvars, rvars, pvars, mvars>>
    /\ Track

\* line 334: input_ctx.packets() is exhausted
ScanExhausted ==
    /\ pc = "scan"
    /\ pos > Len(file)
    /\ pc' = "flush"
    /\ UNCHANGED <<XInputs, target_ts, seek_log, landed, pos, cur, dbuf, sent,
                   emitted, flushed, closest_frame, closest_diff, encoded, result>>
    /\ UNCHANGED <<gvars, rvars, pvars, mvars>>
    /\ Track

\* lines 335-337: a packet of another stream
SkipPacket ==
    /\ pc = "scan"
    /\ pos <= Len(file)
    /\ file[pos].stream # VideoStream
    /\ pos' = pos + 1
    /\ UNCHANGED <<XInputs, pc, target_ts, seek_log, landed, cur, dbuf, sent,
                   emitted, flushed, closest_frame, closest_diff, encoded, result>>
    /\ UNCHANGED <<gvars, rvars, pvars, mvars>>
    /\ Track

\* line 339: decoder.send_packet(&packet)?
SendPacket ==
    /\ pc = "scan"
    /\ pos <= Len(file)
    /\ file[pos].stream = VideoStream
    /\ \E ok \in BOOLEAN :
         IF ok
           THEN /\ sent' = Append(sent, pos)
                /\ dbuf' = Append(dbuf, pos)
                /\ cur' = pos
                /\ pos' = pos + 1
                /\ pc' = "recv"
                /\ UNCHANGED <<result, encoded>>
           ELSE /\ Fail(Err("FFMPEG_ERROR", "send_packet"))
                /\ UNCHANGED <<sent, dbuf, cur, pos>>
    /\ UNCHANGED <<XInputs, target_ts, seek_log, landed, emitted, flushed,
                   closest_frame, closest_diff>>
    /\ UNCHANGED <<gvars, rvars, pvars, mvars>>
    /\ Track

\* lines 342-356: receive_frame returned a frame
ReceiveFrame ==
    /\ pc = "recv"
    /\ dbuf # <<>>
    /\ LET i == Head(dbuf)
           frame_ts == FrameTs(file, i)
           upd == ScanUpdate(closest_frame, closest_diff, i,
                             Diff(frame_ts, target_ts))
       IN  /\ emitted' = Append(emitted, i)
           /\ dbuf' = Tail(dbuf)
           /\ IF overflow_checks /\ DiffOverflows(frame_ts, target_ts)
                THEN /\ Fail(Panic("diff"))
                     /\ UNCHANGED <<closest_frame, closest_diff>>
                ELSE /\ closest_frame' = upd[1]
                     /\ closest_diff' = upd[2]
                     /\ IF EarlyExit(frame_ts, target_ts, upd[1])
                          THEN Encode(upd[1][1])
                          ELSE UNCHANGED <<pc, result, encoded>>
    /\ UNCHANGED <<XInputs, target_ts, seek_log, landed, pos, cur, sent, flushed>>
    /\ UNCHANGED <<gvars, rvars, pvars, mvars>>
    /\ Track

\* lines 342, 358-363: receive_frame returned no frame; the safety limit
EndReceive ==
    /\ pc = "recv"
    /\ IF file[cur].pts # None /\ overflow_checks
          /\ BoundOverflows(target_ts, time_base)
         THEN Fail(Panic("bound"))
         ELSE /\ pc' = IF PastSafetyBound(file[cur], target_ts, time_base)
                         THEN "flush" ELSE "scan"
              /\ UNCHANGED <<result, encoded>>
    /\ UNCHANGED <<XInputs, target_ts, seek_log, landed, pos, cur, dbuf, sent,
                   emitted, flushed, closest_frame, closest_diff>>
    /\ UNCHANGED <<gvars, rvars, pvars, mvars>>
    /\ Track

\* line 367: decoder.send_eof()?
SendEof ==
    /\ pc = "flush"
    /\ flushed' = TRUE
    /\ \E ok \in BOOLEAN :
         IF ok THEN pc' = "drain" /\ UNCHANGED <<result, encoded>>
               ELSE Fail(Err("FFMPEG_ERROR", "send_eof"))
    /\ UNCHANGED <<XInputs, target_ts, seek_log, landed, pos, cur, dbuf, sent,
                   emitted, closest_frame, closest_diff>>
    /\ UNCHANGED <<gvars, rvars, pvars, mvars>>
    /\ Track

\* lines 369-376: the flushed decoder hands out a frame it still held
DrainFrame ==
    /\ pc = "drain"
    /\ dbuf # <<>>
    /\ LET i == Head(dbuf)
           frame_ts == FrameTs(file, i)
           upd == FlushUpdate(closest_frame, closest_diff, i,
                              Diff(frame_ts, target_ts))
       IN  /\ emitted' = Append(emitted, i)
           /\ dbuf' = Tail(dbuf)
           /\ IF overflow_checks /\ DiffOverflows(frame_ts, target_ts)
                THEN /\ Fail(Panic("diff"))
                     /\ UNCHANGED <<closest_frame, closest_diff>>
                ELSE /\ closest_frame' = upd[1]
                     /\ closest_diff' = upd[2]
                     /\ UNCHANGED <<pc, result, encoded>>
    /\ UNCHANGED <<XInputs, target_ts, seek_log, landed, pos, cur, sent, flushed>>
    /\ UNCHANGED <<gvars, rvars, pvars, mvars>>
    /\ Track

\* lines 369, 378-386: the decoder is drained; return
Finish ==
    /\ pc = "drain"
    /\ dbuf = <<>>
    /\ IF Selected(closest_frame)
         THEN Encode(closest_frame[1])
         ELSE Fail(FrameNotFound(timestamp_secs))
    /\ UNCHANGED <<XInputs, target_ts, seek_log, landed, pos, cur, dbuf, sent,
                   emitted, flushed, closest_frame, closest_diff>>
    /\ UNCHANGED <<gvars, rvars, pvars, mvars>>
    /\ Track

Init == XInit /\ GIdle /\ RIdle /\ TIdle /\ PIdle /\ MIdle

Next ==
    \/ OpenFail \/ OpenOk \/ SeekPanic \/ Seek
    \/ ScanExhausted \/ SkipPacket \/ SendPacket
    \/ ReceiveFrame \/ EndReceive
    \/ SendEof \/ DrainFrame \/ Finish

Spec == Init /\ [][Next]_vars

\* ------------------- get_frame_at_time_with_quality, called a second time
\* faulty variant of NewDecoder: the calls share one decoder
SharedDecoder(buf) == buf

\* lines 314-316: every call builds its decoder from the stream parameters;
\* the decoder of the call before is dropped with the frames it still held
NewDecoder(buf) == <<>>

\* the first call has returned; the same arguments are passed again and the
\* locals of lines 300-332 are built anew
SecondCall ==
    /\ run = 1
    /\ pc = "done"
    /\ run' = 2
    /\ first_result' = result
    /\ tape_pos' = 1
    /\ pc' = "open" /\ target_ts' = 0
    /\ seek_log' = <<>> /\ landed' = 0 /\ pos' = 1 /\ cur' = 0
    /\ dbuf' = NewDecoder(dbuf)
    /\ sent' = <<>> /\ emitted' = <<>> /\ flushed' = FALSE
    /\ closest_frame' = None /\ closest_diff' = I64_MAX
    /\ encoded' = None /\ result' = NoResult
    /\ UNCHANGED <<XInputs, tape>>
    /\ UNCHANGED <<gvars, rvars, pvars, mvars>>

\* the smallest whole second whose seek position timestamp_secs * 1_000_000
\* leaves the i64 range
OverflowTs == I64_MAX \div MicrosPerSec + 1

\* the pairs of calls compared: every file; a target inside the stream (at,
\* before or after the first frame, depending on the file) and one whose seek
\* position overflows; a build with overflow checks
TwiceInit ==
    /\ XInit /\ GIdle /\ RIdle /\ PIdle /\ MIdle
    /\ time_base = [num |-> 1, den |-> 1]
    /\ timestamp_secs \in {1, OverflowTs}
    /\ overflow_checks
    /\ run = 1 /\ tape = <<>> /\ tape_pos = 0 /\ first_result = NoResult

TwiceNext ==
    \/ OpenFail \/ OpenOk \/ SeekPanic \/ Seek
    \/ ScanExhausted \/ SkipPacket \/ SendPacket
    \/ ReceiveFrame \/ EndReceive
    \/ SendEof \/ DrainFrame \/ Finish
    \/ SecondCall

SpecTwice == TwiceInit /\ [][TwiceNext]_vars


\* ------------------------------------- generate_thumbnails_with_options
Min(a, b) == IF a <= b THEN a ELSE b
Max(a, b) == IF a >= b THEN a ELSE b

\* the file of a batch: probed duration, and the timestamps at which an
\* extraction from it fails (every extraction re-opens the file, so its
\* outcome depends on the file and the timestamp only)
Durations == {0, 1, 10, LongDuration}
Intervals == {-1, 0, 1, 3}
MaxOptions == {None, Some(0), Some(2), Some(LongDuration + 48)}
ProbeOutcomes ==
    {"ok", "OPEN_ERROR", "NO_VIDEO_STREAM", "CODEC_ERROR", "DECODER_ERROR"}

\* faulty variant of ZeroDurationCheck: a zero duration passes
ZeroDurationNegativeOnly(duration) == duration < 0

\* line 403
ZeroDurationCheck(duration) == duration <= 0

\* lines 411-414: (duration / interval).ceil() as usize, at least 1; the
\* duration is > 0 here, so a zero interval divides to +inf and a negative
\* one to a negative quotient, which the cast saturates
TargetCount(duration, interval) ==
    LET c == IF interval = 0 THEN USIZE_MAX
             ELSE IF interval < 0 THEN 0
             ELSE (duration + interval - 1) \div interval
    IN  IF c = 0 THEN 1 ELSE c

\* faulty variant of LimitCount: the hard cap is left out
LimitCountNoCap(count, max) ==
    IF max # None THEN Min(count, max[1]) ELSE count

\* lines 417-422
LimitCount(count, max) ==
    Min(IF max # None THEN Min(count, max[1]) ELSE count, HardCap)

\* faulty variant of Timestamp: the first timestamp is one interval in
TimestampFromOne(i, interval) == (i + 1) * interval

\* line 427
Timestamp(i, interval) == i * interval

\* get_frame_at_time_with_quality(path, timestamp, quality) on this file
ExtractOk(ts, fail) == ts \notin fail

\* faulty variant of Collect: a failure discards what the batch has so far
CollectOrClear(thumbs, ts, ok) == IF ok THEN Append(thumbs, ts) ELSE <<>>

\* lines 432-438: the frame extracted at ts is pushed, a failure is logged
Collect(thumbs, ts, ok) == IF ok THEN Append(thumbs, ts) ELSE thumbs

\* lines 441-448
BatchResult(thumbs) ==
    IF thumbs = <<>> THEN Err("NO_THUMBNAILS", "batch")
    ELSE [kind |-> "ok", thumbnails |-> thumbs]

GInit ==
    /\ g_probe \in ProbeOutcomes
    /\ g_duration \in Durations
    /\ g_interval \in Intervals
    /\ g_max \in MaxOptions
    /\ g_fail \in SUBSET (0..MaxFailTs)
    /\ g_pc = "probe" /\ g_count = 0 /\ g_i = 0
    /\ g_attempted = <<>> /\ thumbnails = <<>> /\ g_result = NoResult

GInputs == <<g_probe, g_duration, g_interval, g_max, g_fail>>

\* line 401: get_video_info(path)?
GenProbeFail ==
    /\ g_pc = "probe"
    /\ g_probe # "ok"
    /\ g_result' = Err(g_probe, "probe")
    /\ g_pc' = "done"
    /\ UNCHANGED <<GInputs, g_count, g_i, g_attempted, thumbnails>>
    /\ UNCHANGED <<xvars, rvars, tvars, pvars, mvars>>

\* lines 403-408
GenZeroDuration ==
    /\ g_pc = "probe"
    /\ g_probe = "ok"
    /\ ZeroDurationCheck(g_duration)
    /\ g_result' = Err("ZERO_DURATION", "duration")
    /\ g_pc' = "done"
    /\ UNCHANGED <<GInputs, g_count, g_i, g_attempted, thumbnails>>
    /\ UNCHANGED <<xvars, rvars, tvars, pvars, mvars>>

\* lines 410-424
GenCount ==
    /\ g_pc = "probe"
    /\ g_probe = "ok"
    /\ ~ZeroDurationCheck(g_duration)
    /\ g_count' = LimitCount(TargetCount(g_duration, g_interval), g_max)
    /\ g_i' = 0
    /\ g_pc' = "loop"
    /\ UNCHANGED <<GInputs, g_attempted, thumbnails, g_result>>
    /\ UNCHANGED <<xvars, rvars, tvars, pvars, mvars>>

\* lines 426-439: one iteration that reaches the extraction
GenIter ==
    /\ g_pc = "loop"
    /\ g_i < g_count
    /\ LET timestamp == Timestamp(g_i, g_interval)
       IN  /\ ~(timestamp >= g_duration)
           /\ g_attempted' = Append(g_attempted, timestamp)
           /\ thumbnails' = Collect(thumbnails, timestamp,
                                    ExtractOk(timestamp, g_fail))
    /\ g_i' = g_i + 1
    /\ UNCHANGED <<GInputs, g_pc, g_count, g_result>>
    /\ UNCHANGED <<xvars, rvars, tvars, pvars, mvars>>

\* lines 426-448: the loop ends (range exhausted, or break) and the call returns
GenReturn ==
    /\ g_pc = "loop"
    /\ g_i >= g_count \/ Timestamp(g_i, g_interval) >= g_duration
    /\ g_result' = BatchResult(thumbnails)
    /\ g_pc' = "done"
    /\ UNCHANGED <<GInputs, g_count, g_i, g_attempted, thumbnails>>
    /\ UNCHANGED <<xvars, rvars, tvars, pvars, mvars>>

GenNext ==
    \/ GenProbeFail \/ GenZeroDuration \/ GenCount \/ GenIter \/ GenReturn

GenInit == XIdle /\ GInit /\ RIdle /\ TIdle /\ PIdle /\ MIdle

SpecGenerate == GenInit /\ [][GenNext]_vars

\* ------------------------------------------------ open_video, close_video
Threads == 1..NThreads

\* the paths callers pass: two videos whose paths have the same length, a
\* file without a video stream, a path that does not exist
Paths == {"a.mp4", "b.mp4", "song.mp3", "gone.mp4"}
OnDisk == {"a.mp4", "b.mp4", "song.mp3"}
HasVideo(path) == path \in {"a.mp4", "b.mp4"}

\* path.len()
PathLen(path) == Len(path)

\* get_video_info(path) of a video on disk
InfoOf(path) ==
    [duration_secs |-> IF path = "a.mp4" THEN 10 ELSE 1, width |-> 16, height |-> 9]

\* lines 199-204
MakeHandle(path, info) ==
    [path |-> path, info |-> info, stream_index |-> VideoStream,
     time_base |-> [num |-> 1, den |-> 1]]

\* faulty variant of HandleId: the identifier keeps only the path length
HandleIdWithoutUuid(uuid, path) == <<0, PathLen(path)>>

\* line 207: format!("video_{}_{}", uuid::Uuid::new_v4(), path.len())
HandleId(uuid, path) == <<uuid, PathLen(path)>>

\* faulty variant of Insert: the map keeps one entry, the newest
InsertEvicting(map, id, h) == [k \in {id} |-> h]

\* line 214: handles.insert(handle_id, Arc::new(handle))
Insert(map, id, h) ==
    [k \in DOMAIN map \cup {id} |-> IF k = id THEN h ELSE map[k]]

\* faulty variant of Remove: an identifier that is not a key clears the map
RemoveOrClear(map, id) ==
    IF id \in DOMAIN map THEN [k \in DOMAIN map \ {id} |-> map[k]]
    ELSE [k \in {} |-> 0]

\* line 226: handles.remove(handle_id)
Remove(map, id) == [k \in DOMAIN map \ {id} |-> map[k]]

\* faulty variant of FileExists: the check of line 179 is left out
FileExistsUnchecked(path, files) == TRUE

\* line 179: Path::new(path).exists()
FileExists(path, files) == path \in files

\* lines 187-197: what get_video_info(path)?, input(&path)? and
\* streams().best(Type::Video) can come to on a path that exists
OpenOutcomes(path) ==
    IF HasVideo(path)
      THEN {"ok", "OPEN_ERROR", "CODEC_ERROR", "DECODER_ERROR", "FFMPEG_ERROR"}
      ELSE {"OPEN_ERROR", "NO_VIDEO_STREAM"}

\* faulty variant of DropGuard: the guard is leaked, the mutex stays locked
LeakGuard(holder, t) == holder

\* lines 217, 228: the MutexGuard `handles` goes out of scope at the return
DropGuard(holder, t) == IF holder = t THEN 0 ELSE holder

\* the calls that take a path and work on the container: get_video_info,
\* get_frame_at_time_with_quality, generate_thumbnails_with_options
WorkOps == {"info", "extract", "thumbnails"}

\* an identifier no open ever returned
NeverOpened == <<0, 0>>

RInit ==
    /\ disk = OnDisk
    /\ handles = EmptyMap
    /\ lock_holder = 0
    /\ next_uuid = 0
    /\ r_pc = [t \in Threads |-> "idle"]
    /\ r_path = [t \in Threads |-> ""]
    /\ r_info = [t \in Threads |-> None]
    /\ r_handle_id = [t \in Threads |-> NeverOpened]
    /\ r_calls = 0
    /\ opened = <<>>
    /\ closed = <<>>
    /\ failed = <<>>
    /\ probes = {}

\* a caller starts open_video(path)
OpenCall(t) ==
    /\ r_pc[t] = "idle"
    /\ r_calls < MaxCalls
    /\ \E path \in Paths : r_path' = [r_path EXCEPT ![t] = path]
    /\ r_calls' = r_calls + 1
    /\ r_pc' = [r_pc EXCEPT ![t] = "exists"]
    /\ UNCHANGED <<disk, handles, lock_holder, next_uuid, r_info, r_handle_id,
                   opened, closed, failed, probes>>
    /\ UNCHANGED <<xvars, gvars, tvars, pvars, mvars>>

\* the locals of thread t are gone once its call has returned
Return(t) ==
    /\ r_pc' = [r_pc EXCEPT ![t] = "idle"]
    /\ r_path' = [r_path EXCEPT ![t] = ""]
    /\ r_info' = [r_info EXCEPT ![t] = None]
    /\ r_handle_id' = [r_handle_id EXCEPT ![t] = NeverOpened]

\* open_video of thread t returns Err with this code
ReturnErr(t, code) ==
    /\ failed' = Append(failed, [path |-> r_path[t], code |-> code])
    /\ Return(t)

\* lines 179-184
OpenExists(t) ==
    /\ r_pc[t] = "exists"
    /\ IF FileExists(r_path[t], disk)
         THEN /\ r_pc' = [r_pc EXCEPT ![t] = "probe"]
              /\ UNCHANGED <<r_path, r_info, r_handle_id, failed>>
         ELSE ReturnErr(t, "FILE_NOT_FOUND")
    /\ UNCHANGED <<disk, handles, lock_holder, next_uuid, r_calls, opened,
                   closed, probes>>
    /\ UNCHANGED <<xvars, gvars, tvars, pvars, mvars>>

\* lines 187-197: get_video_info(path)?, input(&path)?, streams().best()
OpenProbe(t) ==
    /\ r_pc[t] = "probe"
    /\ probes' = probes \cup {r_path[t]}
    /\ \E outcome \in IF r_path[t] \in disk THEN OpenOutcomes(r_path[t])
                      ELSE {"OPEN_ERROR"} :
         IF outcome = "ok"
           THEN /\ r_info' = [r_info EXCEPT ![t] = Some(InfoOf(r_path[t]))]
                /\ r_pc' = [r_pc EXCEPT ![t] = "id"]
                /\ UNCHANGED <<r_path, r_handle_id, failed>>
           ELSE ReturnErr(t, outcome)
    /\ UNCHANGED <<disk, handles, lock_holder, next_uuid, r_calls, opened, closed>>
    /\ UNCHANGED <<xvars, gvars, tvars, pvars, mvars>>

\* lines 199-207: Uuid::new_v4() draws 122 random bits; it is taken to return
\* a token it has not returned before
OpenMakeId(t) ==
    /\ r_pc[t] = "id"
    /\ next_uuid' = next_uuid + 1
    /\ r_handle_id' = [r_handle_id EXCEPT ![t] = HandleId(next_uuid', r_path[t])]
    /\ r_pc' = [r_pc EXCEPT ![t] = "lock"]
    /\ UNCHANGED <<disk, handles, lock_holder, r_path, r_info, r_calls, opened,
                   closed, failed, probes>>
    /\ UNCHANGED <<xvars, gvars, tvars, pvars, mvars>>

\* lines 210-213: VIDEO_HANDLES.lock() returns once the mutex is free; it
\* fails only on a poisoned mutex, and nothing run under the guard (one insert,
\* one remove) panics, so the LOCK_ERROR return is never taken
OpenLock(t) ==
    /\ r_pc[t] = "lock"
    /\ lock_holder = 0
    /\ lock_holder' = t
    /\ r_pc' = [r_pc EXCEPT ![t] = "insert"]
    /\ UNCHANGED <<disk, handles, next_uuid, r_path, r_info, r_handle_id,
                   r_calls, opened, closed, failed, probes>>
    /\ UNCHANGED <<xvars, gvars, tvars, pvars, mvars>>

\* lines 214-217: insert, return Ok(handle_id); the guard is dropped
OpenInsert(t) ==
    /\ r_pc[t] = "insert"
    /\ lock_holder = t
    /\ handles' = Insert(handles, r_handle_id[t],
                         MakeHandle(r_path[t], r_info[t][1]))
    /\ opened' = Append(opened, [id |-> r_handle_id[t], path |-> r_path[t]])
    /\ lock_holder' = DropGuard(lock_holder, t)
    /\ Return(t)
    /\ UNCHANGED <<disk, next_uuid, r_calls, closed, failed, probes>>
    /\ UNCHANGED <<xvars, gvars, tvars, pvars, mvars>>

\* a caller starts close_video(handle_id) with an identifier it was given, or
\* one that was never opened
CloseCall(t) ==
    /\ r_pc[t] = "idle"
    /\ r_calls < MaxCalls
    /\ \E id \in {opened[k].id : k \in 1..Len(opened)} \cup {NeverOpened} :
         r_handle_id' = [r_handle_id EXCEPT ![t] = id]
    /\ r_calls' = r_calls + 1
    /\ r_pc' = [r_pc EXCEPT ![t] = "c_lock"]
    /\ UNCHANGED <<disk, handles, lock_holder, next_uuid, r_path, r_info,
                   opened, closed, failed, probes>>
    /\ UNCHANGED <<xvars, gvars, tvars, pvars, mvars>>

\* lines 221-224
CloseLock(t) ==
    /\ r_pc[t] = "c_lock"
    /\ lock_holder = 0
    /\ lock_holder' = t
    /\ r_pc' = [r_pc EXCEPT ![t] = "c_remove"]
    /\ UNCHANGED <<disk, handles, next_uuid, r_path, r_info, r_handle_id,
                   r_calls, opened, closed, failed, probes>>
    /\ UNCHANGED <<xvars, gvars, tvars, pvars, mvars>>

\* lines 226-228: remove, return Ok(()); the guard is dropped
CloseRemove(t) ==
    /\ r_pc[t] = "c_remove"
    /\ lock_holder = t
    /\ handles' = Remove(handles, r_handle_id[t])
    /\ closed' = Append(closed, r_handle_id[t])
    /\ lock_holder' = DropGuard(lock_holder, t)
    /\ Return(t)
    /\ UNCHANGED <<disk, next_uuid, r_calls, opened, failed, probes>>
    /\ UNCHANGED <<xvars, gvars, tvars, pvars, mvars>>

\* a caller starts get_video_info, get_frame_at_time_with_quality or
\* generate_thumbnails_with_options on a path; none of them names VIDEO_HANDLES
WorkCall(t) ==
    /\ r_pc[t] = "idle"
    /\ r_calls < MaxCalls
    /\ \E op \in WorkOps : r_pc' = [r_pc EXCEPT ![t] = op]
    /\ r_calls' = r_calls + 1
    /\ UNCHANGED <<disk, handles, lock_holder, next_uuid, r_path, r_info,
                   r_handle_id, opened, closed, failed, probes>>
    /\ UNCHANGED <<xvars, gvars, tvars, pvars, mvars>>

\* that call returns
WorkReturn(t) ==
    /\ r_pc[t] \in WorkOps
    /\ r_pc' = [r_pc EXCEPT ![t] = "idle"]
    /\ UNCHANGED <<disk, handles, lock_holder, next_uuid, r_path, r_info,
                   r_handle_id, r_calls, opened, closed, failed, probes>>
    /\ UNCHANGED <<xvars, gvars, tvars, pvars, mvars>>

RegInit == XIdle /\ GIdle /\ RInit /\ TIdle /\ PIdle /\ MIdle

RegNext ==
    \E t \in Threads :
        \/ OpenCall(t) \/ OpenExists(t) \/ OpenProbe(t) \/ OpenMakeId(t)
        \/ OpenLock(t) \/ OpenInsert(t)
        \/ CloseCall(t) \/ CloseLock(t) \/ CloseRemove(t)
        \/ WorkCall(t) \/ WorkReturn(t)

SpecRegistry == RegInit /\ [][RegNext]_vars

\* ------------------------------------------------------------ get_video_info
\* ffmpeg::ffi::AV_TIME_BASE
AV_TIME_BASE == 1000000
\* line 127
DefaultFps == 30

\* the frame rates a stream reports: unknown rates come as 0/0 or 0/1
RateNums == {0, 25, 30}
RateDens == {0, 1, 2}
Rates == {Frac(n, d) : n \in RateNums, d \in RateDens}

\* lines 118-129
Fps(avg, real) ==
    IF avg.d # 0 THEN Frac(avg.n, avg.d)
    ELSE IF real.d # 0 THEN Frac(real.n, real.d)
    ELSE Frac(DefaultFps, 1)

\* lines 132-143
DurationSecs(ctx, sd, tb) ==
    IF ctx > 0 THEN Frac(ctx, AV_TIME_BASE)
    ELSE IF sd > 0 /\ tb.den # 0 THEN Frac(sd * tb.num, tb.den)
    ELSE Frac(0, 1)

\* (x).round() as u64 of the f64 n / d: half away from zero, negatives to 0
RoundU64(n, d) ==
    IF (n > 0 /\ d > 0) \/ (n < 0 /\ d < 0)
      THEN (2 * Abs(n) + Abs(d)) \div (2 * Abs(d))
      ELSE 0

\* lines 146-150
FrameCount(frames, dur, f) ==
    IF frames > 0 THEN frames ELSE RoundU64(dur.n * f.n, dur.d * f.d)

\* lines 165-173; width, height, codec and bitrate are copied from the decoder
VideoInfo(dur, f, count) ==
    [kind |-> "ok", duration_secs |-> dur, fps |-> f, frame_count |-> count]

ProbeInit ==
    /\ XIdle /\ GIdle /\ RIdle /\ TIdle /\ MIdle
    /\ avg_frame_rate \in Rates
    /\ r_frame_rate \in Rates
    /\ ctx_duration \in {0, 2 * AV_TIME_BASE}
    /\ stream_duration \in {0, 3}
    /\ stream_time_base \in {[num |-> 1, den |-> 2], [num |-> 1, den |-> 0]}
    /\ stream_frames \in {0, 48}
    /\ p_pc = "open" /\ fps = Frac(0, 1) /\ duration_secs = Frac(0, 1)
    /\ p_result = NoResult

PInputs == <<avg_frame_rate, r_frame_rate, ctx_duration, stream_duration,
             stream_time_base, stream_frames>>

\* lines 89-115: input(), streams().best(), the codec context, the decoder
InfoFail ==
    /\ p_pc = "open"
    /\ \E code \in ProbeOutcomes \ {"ok"} : p_result' = Err(code, "probe")
    /\ p_pc' = "done"
    /\ UNCHANGED <<PInputs, fps, duration_secs>>
    /\ UNCHANGED <<xvars, gvars, rvars, tvars, mvars>>

\* lines 89-129
InfoFps ==
    /\ p_pc = "open"
    /\ fps' = Fps(avg_frame_rate, r_frame_rate)
    /\ p_pc' = "duration"
    /\ UNCHANGED <<PInputs, duration_secs, p_result>>
    /\ UNCHANGED <<xvars, gvars, rvars, tvars, mvars>>

\* lines 131-143
InfoDuration ==
    /\ p_pc = "duration"
    /\ duration_secs' = DurationSecs(ctx_duration, stream_duration, stream_time_base)
    /\ p_pc' = "count"
    /\ UNCHANGED <<PInputs, fps, p_result>>
    /\ UNCHANGED <<xvars, gvars, rvars, tvars, mvars>>

\* lines 145-173
InfoReturn ==
    /\ p_pc = "count"
    /\ p_result' = VideoInfo(duration_secs, fps,
                             FrameCount(stream_frames, duration_secs, fps))
    /\ p_pc' = "done"
    /\ UNCHANGED <<PInputs, fps, duration_secs>>
    /\ UNCHANGED <<xvars, gvars, rvars, tvars, mvars>>

ProbeNext == InfoFail \/ InfoFps \/ InfoDuration \/ InfoReturn

SpecProbe == ProbeInit /\ [][ProbeNext]_vars

\* ------------------------------------- run_melt_render, cancel_melt_render
\* the job_id arguments callers pass
JobIds == {"job-a", "job-b"}

\* lines 246-259: Ok(RenderResult { success, .. })
RenderResult(success) == [kind |-> "ok", success |-> success]

\* lines 270, 272: Ok(true), Ok(false)
CancelResult(found) == [kind |-> "ok", value |-> found]

\* an Err(String)
MeltErr(message) == [kind |-> "err", message |-> message]

\* faulty variant of SetCancelled: cancel takes the job out of the map
CancelRemoves(jobs, id) == [k \in DOMAIN jobs \ {id} |-> jobs[k]]

\* lines 268-269: *cancelled = true
SetCancelled(jobs, id) == [jobs EXCEPT ![id] = TRUE]

MInit ==
    /\ XIdle /\ GIdle /\ RIdle /\ TIdle /\ PIdle
    /\ active_jobs = EmptyMap
    /\ temp_files = {}
    /\ m_pc = [t \in Threads |-> "idle"]
    /\ m_job = [t \in Threads |-> ""]
    /\ m_status = [t \in Threads |-> None]
    /\ m_removed = [t \in Threads |-> None]
    /\ m_calls = 0
    /\ m_spawned = <<>>
    /\ m_log = <<>>

\* the call of thread t returns this result; its locals are gone
MeltReturn(t, op, ret) ==
    /\ m_log' = Append(m_log, [op |-> op, job |-> m_job[t], result |-> ret,
                               removed |-> m_removed[t]])
    /\ m_pc' = [m_pc EXCEPT ![t] = "idle"]
    /\ m_job' = [m_job EXCEPT ![t] = ""]
    /\ m_status' = [m_status EXCEPT ![t] = None]
    /\ m_removed' = [m_removed EXCEPT ![t] = None]

\* a caller starts run_melt_render(mlt_xml, output_path, options, job_id)
RenderCall(t) ==
    /\ m_pc[t] = "idle"
    /\ m_calls < MaxCalls
    /\ \E job \in JobIds : m_job' = [m_job EXCEPT ![t] = job]
    /\ m_calls' = m_calls + 1
    /\ m_pc' = [m_pc EXCEPT ![t] = "find"]
    /\ UNCHANGED <<active_jobs, temp_files, m_status, m_removed, m_spawned, m_log>>
    /\ UNCHANGED <<xvars, gvars, rvars, tvars, pvars>>

\* line 179: find_melt().ok_or("melt not found on system")?
RenderFind(t) ==
    /\ m_pc[t] = "find"
    /\ \E found \in BOOLEAN :
         IF found
           THEN /\ m_pc' = [m_pc EXCEPT ![t] = "write"]
                /\ UNCHANGED <<m_job, m_status, m_removed, m_log>>
           ELSE MeltReturn(t, "render", MeltErr("melt not found on system"))
    /\ UNCHANGED <<active_jobs, temp_files, m_calls, m_spawned>>
    /\ UNCHANGED <<xvars, gvars, rvars, tvars, pvars>>

\* lines 182-186: get_mlt_temp_dir_path()?, fs::write(&xml_path, &mlt_xml)?
RenderWrite(t) ==
    /\ m_pc[t] = "write"
    /\ \E outcome \in {"ok", "Could not find home directory",
                       "Failed to write MLT XML"} :
         IF outcome = "ok"
           THEN /\ temp_files' = temp_files \cup {m_job[t]}
                /\ m_pc' = [m_pc EXCEPT ![t] = "register"]
                /\ UNCHANGED <<m_job, m_status, m_removed, m_log>>
           ELSE /\ MeltReturn(t, "render", MeltErr(outcome))
                /\ UNCHANGED temp_files
    /\ UNCHANGED <<active_jobs, m_calls, m_spawned>>
    /\ UNCHANGED <<xvars, gvars, rvars, tvars, pvars>>

\* lines 189-192: the block locks active_jobs, inserts and unlocks; nothing
\* else runs under the guard, and no holder of it panics
RenderRegister(t) ==
    /\ m_pc[t] = "register"
    /\ active_jobs' = Insert(active_jobs, m_job[t], FALSE)
    /\ m_pc' = [m_pc EXCEPT ![t] = "spawn"]
    /\ UNCHANGED <<temp_files, m_job, m_status, m_removed, m_calls, m_spawned,
                   m_log>>
    /\ UNCHANGED <<xvars, gvars, rvars, tvars, pvars>>

\* lines 195-235: the command is built and cmd.output() starts melt, or fails
\* to start it and `?` returns the error
RenderSpawn(t) ==
    /\ m_pc[t] = "spawn"
    /\ \E started \in BOOLEAN :
         IF started
           THEN /\ m_spawned' = Append(m_spawned, m_job[t])
                /\ m_pc' = [m_pc EXCEPT ![t] = "running"]
                /\ UNCHANGED <<m_job, m_status, m_removed, m_log>>
           ELSE /\ MeltReturn(t, "render", MeltErr("Failed to run melt"))
                /\ UNCHANGED m_spawned
    /\ UNCHANGED <<active_jobs, temp_files, m_calls>>
    /\ UNCHANGED <<xvars, gvars, rvars, tvars, pvars>>

\* lines 233-235: melt exits and cmd.output() returns its status
RenderExit(t) ==
    /\ m_pc[t] = "running"
    /\ \E success \in BOOLEAN : m_status' = [m_status EXCEPT ![t] = Some(success)]
    /\ m_pc' = [m_pc EXCEPT ![t] = "unregister"]
    /\ UNCHANGED <<active_jobs, temp_files, m_job, m_removed, m_calls, m_spawned,
                   m_log>>
    /\ UNCHANGED <<xvars, gvars, rvars, tvars, pvars>>

\* lines 238-241: jobs.remove(&job_id); the Option<bool> it returns is dropped
RenderUnregister(t) ==
    /\ m_pc[t] = "unregister"
    /\ m_removed' = [m_removed EXCEPT ![t] =
                        IF m_job[t] \in DOMAIN active_jobs
                          THEN Some(active_jobs[m_job[t]]) ELSE None]
    /\ active_jobs' = Remove(active_jobs, m_job[t])
    /\ m_pc' = [m_pc EXCEPT ![t] = "cleanup"]
    /\ UNCHANGED <<temp_files, m_job, m_status, m_calls, m_spawned, m_log>>
    /\ UNCHANGED <<xvars, gvars, rvars, tvars, pvars>>

\* lines 244-259: let _ = fs::remove_file(&xml_path), then the result
RenderReturn(t) ==
    /\ m_pc[t] = "cleanup"
    /\ temp_files' = temp_files \ {m_job[t]}
    /\ MeltReturn(t, "render", RenderResult(m_status[t][1]))
    /\ UNCHANGED <<active_jobs, m_calls, m_spawned>>
    /\ UNCHANGED <<xvars, gvars, rvars, tvars, pvars>>

\* a caller starts cancel_melt_render(job_id)
CancelCall(t) ==
    /\ m_pc[t] = "idle"
    /\ m_calls < MaxCalls
    /\ \E job \in JobIds : m_job' = [m_job EXCEPT ![t] = job]
    /\ m_calls' = m_calls + 1
    /\ m_pc' = [m_pc EXCEPT ![t] = "cancel"]
    /\ UNCHANGED <<active_jobs, temp_files, m_status, m_removed, m_spawned, m_log>>
    /\ UNCHANGED <<xvars, gvars, rvars, tvars, pvars>>

\* lines 267-273, under the lock
CancelRun(t) ==
    /\ m_pc[t] = "cancel"
    /\ IF m_job[t] \in DOMAIN active_jobs
         THEN /\ active_jobs' = SetCancelled(active_jobs, m_job[t])
              /\ MeltReturn(t, "cancel", CancelResult(TRUE))
         ELSE /\ UNCHANGED active_jobs
              /\ MeltReturn(t, "cancel", CancelResult(FALSE))
    /\ UNCHANGED <<temp_files, m_calls, m_spawned>>
    /\ UNCHANGED <<xvars, gvars, rvars, tvars, pvars>>

MeltNext ==
    \E t \in Threads :
        \/ RenderCall(t) \/ RenderFind(t) \/ RenderWrite(t) \/ RenderRegister(t)
        \/ RenderSpawn(t) \/ RenderExit(t) \/ RenderUnregister(t)
        \/ RenderReturn(t)
        \/ CancelCall(t) \/ CancelRun(t)

SpecMelt == MInit /\ [][MeltNext]_vars

\* ======================================================= claims on extract
Last(q) == q[Len(q)]
Range(q) == {q[k] : k \in 1..Len(q)}

\* |pts - target_ts| of the frame decoded from packet i, missing pts as 0
TrueDiff(i) == Abs(FrameTs(file, i) - target_ts)

\* the call ran to its end without a failed library call or an overflow panic
Completed ==
    /\ pc = "done"
    /\ result.kind \in {"ok", "err"}
    /\ result.kind = "err" => result.at \in {"encode", "select"}

\* C1: whenever extract returns a frame, the encoded frame has the minimal
\* |pts - target_ts| among all the frames the decoder emitted during the call,
\* those of the forward scan and those of the flush.
C1_ReturnedFrameIsClosest ==
    result.kind = "ok" =>
        /\ encoded # None
        /\ encoded[1] \in Range(emitted)
        /\ \A j \in Range(emitted) : TrueDiff(encoded[1]) <= TrueDiff(j)

\* the forward scan has just received a frame with pts >= target_ts while a
\* closest frame is recorded
ScanHit ==
    /\ ~flushed
    /\ emitted # <<>>
    /\ FrameTs(file, Last(emitted)) >= target_ts
    /\ closest_frame # None
    /\ result.kind # "panic"

\* C2: in the forward scan, as soon as a frame has pts >= target_ts and a
\* closest frame is recorded, the call is over with the recorded closest frame
\* handed to the encoder and the encoder's result returned; from then on no
\* packet is sent, no frame is received and the decoder is not flushed.
C2_EarlyExitStopsScan ==
    /\ [](ScanHit =>
            /\ pc = "done"
            /\ encoded = closest_frame
            /\ result \in {Ok(closest_frame[1])}
                          \cup {Err(c, "encode") : c \in EncodeErrors})
    /\ [][ScanHit => UNCHANGED <<sent, emitted, flushed, pc, result>>]_vars

\* C2's case: the early exit returned a frame recorded before the frame that
\* reached the target, with a video packet left that was never sent
C2_Witness ==
    /\ ScanHit
    /\ result.kind = "ok"
    /\ encoded # Some(Last(emitted))
    /\ \E j \in 1..Len(file) : j > Last(sent) /\ file[j].stream = VideoStream

\* packet i is a video packet with pts > target_ts + 2 * time_base.denominator
Beyond(i) ==
    /\ file[i].stream = VideoStream
    /\ file[i].pts # None
    /\ file[i].pts[1] > target_ts + 2 * time_base.den

SentBeyond == \E k \in 1..Len(sent) : Beyond(sent[k])

OnlyLastSentBeyond == \A k \in 1..Len(sent) : Beyond(sent[k]) => k = Len(sent)

\* C3, as stated: once a video packet with pts > target_ts + 2 * denominator
\* was sent, no later packet is sent and the call continues with the flush.
C3_BoundAlwaysFlushes ==
    SentBeyond =>
        /\ OnlyLastSentBeyond
        /\ pc # "scan"
        /\ pc = "done" => flushed

\* C3, amended: once a video packet with pts > target_ts + 2 * denominator was
\* sent, no later packet is sent (at most one packet beyond the bound is
\* decoded), and the call continues with the flush unless a frame received
\* after that packet ends the call first, by the early exit or by an overflow
\* panic in the diff computation.
C3_BoundStopsScan ==
    SentBeyond =>
        /\ OnlyLastSentBeyond
        /\ pc # "scan"
        /\ pc = "done" => \/ flushed
                          \/ ScanHit
                          \/ result = Panic("diff")

\* C3's case: a packet beyond the bound was sent, the scan was abandoned with a
\* video packet left unsent, the decoder was flushed and a frame returned
C3_Witness ==
    /\ SentBeyond
    /\ flushed
    /\ result.kind = "ok"
    /\ \E j \in 1..Len(file) : j > Last(sent) /\ file[j].stream = VideoStream

\* C4: when every library call succeeds, extract returns FrameNotFound (with
\* the requested timestamp) exactly when the decoder emitted no frame in scan
\* and flush; if a frame was emitted, a frame is encoded.
C4_FrameNotFoundIffNoFrame ==
    Completed =>
        /\ result = FrameNotFound(timestamp_secs) <=> emitted = <<>>
        /\ emitted # <<>> => encoded # None

\* C5: a seek error is returned exactly when the precise seek and the fallback
\* seek both failed; when the precise seek failed and the fallback succeeded,
\* the call goes on and scans the packets from the first one.
FirstVideoPacket(f) ==
    CHOOSE i \in 1..Len(f) :
        /\ f[i].stream = VideoStream
        /\ \A j \in 1..(i - 1) : f[j].stream # VideoStream

C5_SeekFallback ==
    /\ result = Err("FFMPEG_ERROR", "seek") <=> seek_log = <<"fail", "fail">>
    /\ seek_log = <<"fail", "ok">> =>
          /\ pc \in {"scan", "recv", "flush", "drain", "done"}
          /\ landed = 0
          /\ sent # <<>> => sent[1] = FirstVideoPacket(file)

\* C5's case: the precise seek failed, the fallback succeeded, and the call
\* returned a frame decoded from the first video packet on
C5_Witness ==
    /\ seek_log = <<"fail", "ok">>
    /\ result.kind = "ok"
    /\ sent # <<>> /\ sent[1] = FirstVideoPacket(file)


\* ====================================================== claims on generate
\* the probe succeeded with a duration > 0 and the batch is in or past its loop
BatchRan == g_probe = "ok" /\ g_duration > 0 /\ g_pc \in {"loop", "done"}

\* the extractions of the batch that succeeded, in the order attempted
Successes == SelectSeq(g_attempted, LAMBDA ts : ts \notin g_fail)

\* the number of loop indexes i < count whose timestamp is below the duration
Planned ==
    Cardinality({i \in 0..(g_count - 1) :
                    \A j \in 0..i : j * g_interval < g_duration})

\* C6: a failed extraction never aborts the batch: whatever fails, every
\* timestamp of the batch is attempted, every successful extraction is in the
\* result, and the call fails with NoThumbnails exactly when none succeeded.
C6_FailuresAreSkipped ==
    /\ BatchRan => thumbnails = Successes
    /\ g_pc = "done" /\ BatchRan =>
          /\ Len(g_attempted) = Planned
          /\ g_result = Err("NO_THUMBNAILS", "batch")
                <=> \A k \in 1..Len(g_attempted) : g_attempted[k] \in g_fail
          /\ g_result # Err("NO_THUMBNAILS", "batch")
                => g_result = [kind |-> "ok", thumbnails |-> Successes]

\* C6's case: the first extraction failed, later ones were still attempted
\* and succeeded, and the batch returned them
C6_Witness ==
    /\ g_pc = "done"
    /\ Len(g_attempted) >= 3
    /\ g_attempted[1] \in g_fail
    /\ g_attempted[2] \in g_fail
    /\ g_result.kind = "ok"
    /\ Len(g_result.thumbnails) = Len(g_attempted) - 2

\* ceil(duration / interval_secs), at least 1, as the claim computes it
\* (unbounded for a zero interval)
ClaimCount ==
    IF g_interval > 0
      THEN Max(IF g_duration % g_interval = 0 THEN g_duration \div g_interval
               ELSE g_duration \div g_interval + 1, 1)
      ELSE IF g_interval = 0 THEN USIZE_MAX ELSE 1

ClaimLimit ==
    Min(Min(ClaimCount, IF g_max = None THEN USIZE_MAX ELSE g_max[1]), HardCap)

\* C7: the number of timestamps attempted is at most
\* min(max(ceil(duration / interval), 1), max_count if supplied, 100); the two
\* limits never raise the count, and no call returns more than 100 thumbnails.
C7_CountIsCapped ==
    BatchRan =>
        /\ g_count <= ClaimCount
        /\ g_count = ClaimLimit
        /\ Len(g_attempted) <= ClaimLimit
        /\ Len(thumbnails) <= HardCap
        /\ g_result.kind = "ok" => Len(g_result.thumbnails) <= HardCap

\* C7's case: duration and interval ask for more than 100, the caller's
\* maximum is above 100, and exactly 100 timestamps were attempted
C7_Witness ==
    /\ g_pc = "done"
    /\ ClaimCount > HardCap
    /\ g_max # None /\ g_max[1] > HardCap
    /\ Len(g_attempted) = HardCap
    /\ g_result.kind = "ok"

\* C8: the timestamps attempted are i * interval_secs for i = 0, 1, 2, ... in
\* this order, each below the duration (duration 10, interval 3: 0, 3, 6, 9);
\* the list holds the successful extractions in timestamp order and is never
\* longer than the target count.
C8_TimestampsInOrder ==
    BatchRan =>
        /\ \A k \in 1..Len(g_attempted) :
              /\ g_attempted[k] = (k - 1) * g_interval
              /\ g_attempted[k] < g_duration
        /\ thumbnails = Successes
        /\ Len(thumbnails) <= ClaimCount
        /\ g_pc = "done" /\ g_duration = 10 /\ g_interval = 3 /\ g_max = None
              => g_attempted = <<0, 3, 6, 9>>

\* C8's case: duration 10, interval 3, the extraction at 3 fails and the
\* batch returns the frames of 0, 6 and 9
C8_Witness ==
    /\ g_pc = "done"
    /\ g_duration = 10 /\ g_interval = 3
    /\ g_attempted = <<0, 3, 6, 9>>
    /\ g_result = [kind |-> "ok", thumbnails |-> <<0, 6, 9>>]

\* C9: generate fails with ZeroDuration exactly when the probe succeeded and
\* the probed duration is <= 0, and then no extraction was attempted.
C9_ZeroDuration ==
    g_pc = "done" =>
        /\ g_result = Err("ZERO_DURATION", "duration")
              <=> g_probe = "ok" /\ g_duration <= 0
        /\ g_result = Err("ZERO_DURATION", "duration") => g_attempted = <<>>

\* C9's case: the probe succeeded with duration 0 and the call returned
\* ZeroDuration
C9_Witness ==
    /\ g_pc = "done"
    /\ g_probe = "ok" /\ g_duration = 0
    /\ g_result = Err("ZERO_DURATION", "duration")
    /\ g_attempted = <<>>


\* ====================================================== claims on registry
\* the identifiers threads hold between formatting them and returning them
InFlight == {t \in Threads : r_pc[t] \in {"lock", "insert"}}

\* C10: under every interleaving of open calls, each successful open returns an
\* identifier different from all identifiers returned before or held by a
\* concurrent open, and adds its own entry: with no close, n successful opens
\* leave n entries, each holding the path of the open that returned its key.
C10_OpensAreIndependent ==
    /\ \A i, j \in 1..Len(opened) : i # j => opened[i].id # opened[j].id
    /\ \A t \in InFlight : \A i \in 1..Len(opened) : r_handle_id[t] # opened[i].id
    /\ \A t, u \in InFlight : t # u => r_handle_id[t] # r_handle_id[u]
    /\ closed = <<>> =>
          /\ Cardinality(DOMAIN handles) = Len(opened)
          /\ \A i \in 1..Len(opened) :
                /\ opened[i].id \in DOMAIN handles
                /\ handles[opened[i].id].path = opened[i].path

\* C10's case: two opens of the same file overlapped (the one that drew its
\* token second returned first), a third open took another path of the same
\* length, no close ran, and the registry holds three entries
C10_Witness ==
    /\ closed = <<>>
    /\ Len(opened) = 3
    /\ opened[1].path = opened[2].path
    /\ opened[1].id[1] > opened[2].id[1]
    /\ opened[3].path # opened[1].path
    /\ PathLen(opened[3].path) = PathLen(opened[1].path)
    /\ Cardinality(DOMAIN handles) = 3

\* thread t returns from close_video in this step
CloseReturns(t) == r_pc[t] = "c_remove" /\ r_pc'[t] = "idle"

\* the identifiers successful opens returned
OpenedIds == {opened[k].id : k \in 1..Len(opened)}

\* C11: close on an identifier that is not a key of the registry returns
\* success and leaves the registry unchanged; close on a registered identifier
\* removes exactly that entry and leaves every other entry unchanged; so a
\* second close of the same identifier changes nothing.
C11_CloseIsIdempotent ==
    /\ [][\A t \in Threads : CloseReturns(t) =>
            LET id == r_handle_id[t] IN
            /\ closed' = Append(closed, id)
            /\ failed' = failed
            /\ id \notin DOMAIN handles => handles' = handles
            /\ id \in DOMAIN handles =>
                  /\ DOMAIN handles' = DOMAIN handles \ {id}
                  /\ \A k \in DOMAIN handles' : handles'[k] = handles[k]
            /\ id \in Range(closed) => handles' = handles]_vars
    /\ [](\A k \in 1..Len(closed) : closed[k] \notin DOMAIN handles)

\* C11's case: an opened identifier was closed twice and a never-opened one
\* once, all three calls returned, and the registry is empty
C11_Witness ==
    /\ Len(opened) = 1
    /\ closed = <<opened[1].id, opened[1].id>>
       \/ closed = <<NeverOpened, opened[1].id>>
    /\ handles = EmptyMap
    /\ \A t \in Threads : r_pc[t] = "idle"

\* C12: a registry entry exists exactly from the successful open that created
\* it until the first close of its identifier; no other step (another open, a
\* close of another identifier, a probe, extract or thumbnail call) removes the
\* entry or changes its path, VideoInfo, stream index or time base.
C12_EntriesLiveUntilClosed ==
    /\ [](DOMAIN handles = OpenedIds \ Range(closed))
    /\ [](\A k \in 1..Len(opened) :
            opened[k].id \in DOMAIN handles =>
                handles[opened[k].id]
                    = MakeHandle(opened[k].path, InfoOf(opened[k].path)))
    /\ [][\A id \in DOMAIN handles :
            \/ id \in DOMAIN handles' /\ handles'[id] = handles[id]
            \/ \E t \in Threads : CloseReturns(t) /\ r_handle_id[t] = id]_vars

\* C12's case: after an entry was created, the same file was opened again and
\* the second identifier closed; the first entry is still there as created
C12_Witness ==
    /\ Len(opened) = 2
    /\ opened[1].path = opened[2].path
    /\ closed = <<opened[2].id>>
    /\ DOMAIN handles = {opened[1].id}
    /\ handles[opened[1].id].path = opened[1].path

\* the positions of a thread at which it probes or opens a container, decodes
\* or encodes
Busy == {"exists", "probe", "id"} \cup WorkOps

\* C13: the registry lock is held only for one insert or one remove: no thread
\* holds it while it probes, opens a file, decodes or encodes, so a running
\* probe or extraction never keeps another thread's open or close from the lock.
C13_LockOnlyAroundMapAccess ==
    /\ [](lock_holder # 0 => r_pc[lock_holder] \in {"insert", "c_remove"})
    /\ [](\A t \in Threads : r_pc[t] \in Busy => lock_holder # t)
    /\ [][\A t \in Threads :
            lock_holder = t /\ r_pc'[t] # r_pc[t] =>
                /\ lock_holder' = 0
                /\ r_pc'[t] = "idle"
                /\ \/ /\ DOMAIN handles' = DOMAIN handles \cup {r_handle_id[t]}
                      /\ \A k \in DOMAIN handles : handles'[k] = handles[k]
                   \/ handles' = Remove(handles, r_handle_id[t])]_vars

\* C13's case: one thread is inside an extraction while another holds the lock
\* for its insert
C13_Witness ==
    \E t, u \in Threads :
        /\ r_pc[t] = "extract"
        /\ r_pc[u] = "insert"
        /\ lock_holder = u

\* the error codes line 177-217 can return without the lock
OpenErrors ==
    {"FILE_NOT_FOUND", "OPEN_ERROR", "NO_VIDEO_STREAM", "CODEC_ERROR",
     "DECODER_ERROR", "FFMPEG_ERROR"}

\* C14: open on a path that does not exist fails with FileNotFound before the
\* prober is invoked; an open that fails leaves the registry as it was, and the
\* registry gains an entry only in the step in which open returns an identifier.
C14_FailedOpenLeavesRegistry ==
    /\ [](\A k \in 1..Len(failed) :
            /\ failed[k].code \in OpenErrors
            /\ failed[k].code = "FILE_NOT_FOUND" <=> failed[k].path \notin disk)
    /\ [](\A p \in probes : p \in disk)
    /\ [](DOMAIN handles \subseteq OpenedIds)
    /\ [][failed' # failed => handles' = handles /\ opened' = opened]_vars
    /\ [][\A id \in DOMAIN handles' \ DOMAIN handles :
            /\ opened' = Append(opened, [id |-> id, path |-> handles'[id].path])
            /\ failed' = failed]_vars

\* C14's case: one open failed on a missing path without a probe, one failed
\* in the probe, and the only entry is that of the open that succeeded
C14_Witness ==
    /\ Len(failed) = 2
    /\ \E k \in 1..2 : failed[k] = [path |-> "gone.mp4", code |-> "FILE_NOT_FOUND"]
    /\ \E k \in 1..2 : failed[k] = [path |-> "song.mp3", code |-> "NO_VIDEO_STREAM"]
    /\ "gone.mp4" \notin probes
    /\ Len(opened) = 1
    /\ DOMAIN handles = {opened[1].id}


VideoPackets == {i \in 1..Len(file) : file[i].stream = VideoStream}

\* target_ts is at or beyond the pts of every frame of the stream
AtOrAfterEnd ==
    /\ pc # "open"
    /\ \A i \in VideoPackets : FrameTs(file, i) <= target_ts

\* C16: for a timestamp at or after the duration (target_ts at or beyond the
\* pts of every frame), extract returns the last frame the decoder hands out
\* or FrameNotFound, never an earlier frame, and no computation of target_ts,
\* seek position, diff or safety bound overflows.
C16_PastEndNeverAborts ==
    AtOrAfterEnd /\ pc = "done" =>
        /\ result.kind # "panic"
        /\ seek_log # <<>> => ~SeekOverflows(timestamp_secs)
        /\ result.kind = "ok" =>
              \A j \in Range(emitted) : FrameTs(file, j) <= FrameTs(file, encoded[1])


\* ========================================================= claims on probe
\* the f64 is greater than 0
Positive(q) == q.n * q.d > 0

\* the f64 holds the quotient of the rational r
IsRate(q, r) == q.n * r.d = r.n * q.d

\* C17: whenever probe succeeds, fps > 0, for every pair of average and real
\* frame rate: the average rate when its denominator is nonzero, else the real
\* rate when its denominator is nonzero, else exactly 30.0.
C17_FpsPositive ==
    p_result.kind = "ok" =>
        /\ Positive(p_result.fps)
        /\ avg_frame_rate.d # 0 => IsRate(p_result.fps, avg_frame_rate)
        /\ avg_frame_rate.d = 0 /\ r_frame_rate.d # 0
              => IsRate(p_result.fps, r_frame_rate)
        /\ avg_frame_rate.d = 0 /\ r_frame_rate.d = 0
              => p_result.fps = Frac(DefaultFps, 1)


\* ================================================= claims on the melt runner
\* thread t returns from cancel_melt_render in this step
CancelReturns(t) == m_pc[t] = "cancel" /\ m_pc'[t] = "idle"

\* the renders that returned after their job had been cancelled
CancelledRenders ==
    {k \in 1..Len(m_log) :
        m_log[k].op = "render" /\ m_log[k].removed = Some(TRUE)}

\* C18: cancel returns true and sets the job's flag when the job identifier is
\* registered, returns false and changes nothing when it is not; it touches
\* neither a running melt nor a render's position, and a render whose job was
\* cancelled has still run melt and returns the result of melt's exit status.
C18_CancelIsAdvisory ==
    /\ [][\A t \in Threads : CancelReturns(t) =>
            LET job == m_job[t] IN
            /\ IF job \in DOMAIN active_jobs
                 THEN /\ active_jobs' = [active_jobs EXCEPT ![job] = TRUE]
                      /\ Last(m_log').result = CancelResult(TRUE)
                 ELSE /\ active_jobs' = active_jobs
                      /\ Last(m_log').result = CancelResult(FALSE)
            /\ UNCHANGED <<temp_files, m_status, m_spawned>>
            /\ \A u \in Threads \ {t} : m_pc'[u] = m_pc[u]]_vars
    /\ [](\A k \in CancelledRenders :
            /\ m_log[k].result.kind = "ok"
            /\ m_log[k].job \in Range(m_spawned))
    /\ [](\A t \in Threads :
            m_pc[t] \in {"running", "unregister"}
                => \E k \in 1..Len(m_spawned) : m_spawned[k] = m_job[t])

\* C18's case: a job was cancelled after it was registered (cancel returned
\* true), melt ran all the same and the render returned success
C18_Witness ==
    \E k \in CancelledRenders :
        /\ m_log[k].result = RenderResult(TRUE)
        /\ \E c \in 1..(k - 1) :
              /\ m_log[c].op = "cancel"
              /\ m_log[c].job = m_log[k].job
              /\ m_log[c].result = CancelResult(TRUE)
        /\ \E c \in 1..Len(m_log) :
              m_log[c].op = "cancel" /\ m_log[c].result = CancelResult(FALSE)

\* the positions of run_melt_render between the insert and the remove of the
\* job, and between the write and the removal of the temporary file
Registered == {"spawn", "running", "unregister"}
HasTempFile == {"register", "spawn", "running", "unregister", "cleanup"}

\* C19: every job run_melt_render registers is removed again by the time the
\* call returns, on every path: active_jobs holds only identifiers of renders
\* still running, and a temporary .mlt file exists only for a render that has
\* not returned.
C19_JobsAreRemoved ==
    /\ \A job \in DOMAIN active_jobs :
          \E t \in Threads : m_job[t] = job /\ m_pc[t] \in Registered
    /\ \A job \in temp_files :
          \E t \in Threads : m_job[t] = job /\ m_pc[t] \in HasTempFile

====
